---- MODULE Spec2Model ----
(***************************************************************************)
(* Model of the two HTTP features of the bot, RoleMembersFeature           *)
(* (GET /role-members) and SubscriptionFeature (GET /boosters): a TTL      *)
(* cache plus one asyncio.Lock per cache key around a member scan that is  *)
(* bounded by asyncio.wait_for.                                            *)
(*                                                                         *)
(* Scheduling: asyncio is cooperative.  A handler runs without interruption *)
(* until it awaits something that is not ready; the only such await is the *)
(* member scan inside wait_for (acquiring a free asyncio.Lock returns      *)
(* without suspending).  `running` names the request whose synchronous     *)
(* code is executing; the steps of that code are separate actions so that  *)
(* the intermediate states are visible, but no other request and no clock  *)
(* tick is interleaved with them.                                          *)
(*                                                                         *)
(* Keys: the cache key of /role-members is the tuple (guild_id, role_id),  *)
(* the key of /boosters is the integer guild_id, written <<guild_id>> here. *)
(***************************************************************************)
EXTENDS Integers, Sequences, FiniteSets, TLC

VARIABLES
    now,                    \* time.time(), in whole seconds
    guilds,                 \* the bot's guilds and their members (upstream)
    readies,                \* history: on_ready events so far
    api_started,            \* main: the flag api_started
    api_tasks,              \* start_api tasks created by on_ready
    listening,              \* start_api tasks that have run: the HTTP API listens
    configured,             \* feature -> the arguments its __init__ was called with
    cache_seconds,          \* feature -> self.cache_seconds
    build_timeout_seconds,  \* feature -> self.build_timeout_seconds
    cache,                  \* feature -> self._cache: key -> CacheEntry
    locks,                  \* feature -> self._locks: key -> lock.locked()
    req,                    \* request slot -> the handler coroutine's state
    running,                \* the request executing synchronous code, or 0
    scans                   \* history: feature -> key -> member scans started since
                            \* the key's entry was last written

\* the state of main and of on_ready
mainVars == <<readies, api_started, api_tasks, listening>>

vars ==
    <<now, guilds, mainVars, configured, cache_seconds, build_timeout_seconds, cache, locks,
      req, running, scans>>

None == "None"

RoleMembers == "role_members"
Boosters == "boosters"
Feats == {RoleMembers, Boosters}

(***************************************************************************)
(* Bounds of the model.                                                    *)
(***************************************************************************)
NumReqs == 2        \* request slots: requests that can be in flight at once
MaxTime == 5        \* where the clock stops when both features are served
MaxTimeLong == 16   \* where the clock stops when one feature alone is served
MaxTimeBrief == 1   \* where the clock stops before any wait_for timer can fire
MaxReady == 3       \* on_ready events of a run: the first and two reconnects
MaxMembers == 3     \* members of the guild when its member list is drawn
MaxScans == 2       \* the upstream raises only before the MaxScans-th scan of a key
                    \* since the key's entry was last written
Reqs == 1..NumReqs

(***************************************************************************)
(* Query strings are sequences of characters.                              *)
(***************************************************************************)
Max2(a, b) == IF a >= b THEN a ELSE b

DigitChars == {"0", "1", "2", "3", "4", "5", "6", "7", "8", "9"}

DigitVal(c) ==
    CASE c = "0" -> 0 [] c = "1" -> 1 [] c = "2" -> 2 [] c = "3" -> 3
      [] c = "4" -> 4 [] c = "5" -> 5 [] c = "6" -> 6 [] c = "7" -> 7
      [] c = "8" -> 8 [] c = "9" -> 9

IsSpace(c) == c \in {" ", "\t"}

RECURSIVE LStrip(_)
LStrip(s) == IF s # <<>> /\ IsSpace(Head(s)) THEN LStrip(Tail(s)) ELSE s

RECURSIVE RStrip(_)
RStrip(s) ==
    IF s # <<>> /\ IsSpace(s[Len(s)]) THEN RStrip(SubSeq(s, 1, Len(s) - 1)) ELSE s

\* str.strip()
Strip(s) == RStrip(LStrip(s))

RECURSIVE DigitsValue(_)
DigitsValue(s) ==
    IF s = <<>> THEN 0
    ELSE 10 * DigitsValue(SubSeq(s, 1, Len(s) - 1)) + DigitVal(s[Len(s)])

IsDigits(s) == s # <<>> /\ \A i \in 1..Len(s) : s[i] \in DigitChars

ParseIntLenient(s) == IF IsDigits(s) THEN <<DigitsValue(s)>> ELSE <<0>>

\* int(s) of a stripped string: <<n>>, or <<>> for ValueError
ParseInt(s) ==
    IF IsDigits(s) THEN <<DigitsValue(s)>>
    ELSE IF s # <<>> /\ Head(s) = "-" /\ IsDigits(Tail(s)) THEN <<0 - DigitsValue(Tail(s))>>
    ELSE IF s # <<>> /\ Head(s) = "+" /\ IsDigits(Tail(s)) THEN <<DigitsValue(Tail(s))>>
    ELSE <<>>

(***************************************************************************)
(* Responses.                                                              *)
(***************************************************************************)
JsonResponse(payload) == [status |-> 200, body |-> payload]

HTTPUnauthorized == [status |-> 401, body |-> [error |-> "unauthorized"]]

HTTPBadRequest(msg) == [status |-> 400, body |-> [error |-> msg]]

HTTPNotFound == [status |-> 404, body |-> [error |-> "guild_not_found_or_no_access"]]

\* the 202 "building_cache" response of a feature for a key
HTTPAccepted(f, key) ==
    [status |-> 202,
     body |-> IF f = RoleMembers
              THEN [status |-> "building_cache",
                    guild_id |-> ToString(key[1]), role_id |-> ToString(key[2])]
              ELSE [status |-> "building_cache", guild_id |-> ToString(key[1])]]

\* what aiohttp answers when the handler raises anything else
InternalServerError == [status |-> 500, body |-> [error |-> "internal"]]

NoResponse == [status |-> 0, body |-> <<>>]

(***************************************************************************)
(* The query of a request: the 400 response, or the cache key.             *)
(***************************************************************************)
ApiKey == "secret"

\* self._auth
Auth(hdr) == hdr = ApiKey

\* handler, query parsing: [ok |-> TRUE, key |-> k] or [ok |-> FALSE, resp |-> r]
RoleMembersQuery(gidRaw, ridRaw) ==
    LET gid == Strip(gidRaw)
        rid == Strip(ridRaw)
    IN  IF gid = <<>> THEN [ok |-> FALSE, resp |-> HTTPBadRequest("missing guild_id")]
        ELSE IF rid = <<>> THEN [ok |-> FALSE, resp |-> HTTPBadRequest("missing role_id")]
        ELSE IF ParseInt(gid) = <<>> \/ ParseInt(rid) = <<>>
             THEN [ok |-> FALSE, resp |-> HTTPBadRequest("invalid guild_id_or_role_id")]
        ELSE [ok |-> TRUE, key |-> <<ParseInt(gid)[1], ParseInt(rid)[1]>>]

BoostersQuery(gidRaw) ==
    LET gid == Strip(gidRaw)
    IN  IF gid = <<>> THEN [ok |-> FALSE, resp |-> HTTPBadRequest("missing guild_id")]
        ELSE IF ParseInt(gid) = <<>>
             THEN [ok |-> FALSE, resp |-> HTTPBadRequest("invalid guild_id")]
        ELSE [ok |-> TRUE, key |-> <<ParseInt(gid)[1]>>]

Query(f, gidRaw, ridRaw) ==
    IF f = RoleMembers THEN RoleMembersQuery(gidRaw, ridRaw) ELSE BoostersQuery(gidRaw)

(***************************************************************************)
(* Cache and locks.                                                        *)
(***************************************************************************)
CacheEntry(ts, payload) == [ts |-> ts, payload |-> payload]

CacheValidInclusive(f, entry) == (now - entry.ts) <= cache_seconds[f]

\* _cache_valid
CacheValid(f, entry) == (now - entry.ts) < cache_seconds[f]

CacheHitNever(f, key) == FALSE

\* "entry and self._cache_valid(entry)"
CacheHit(f, key) == key \in DOMAIN cache[f] /\ CacheValid(f, cache[f][key])

\* self._cache[key] = entry
CachePut(f, key, entry) ==
    [cache EXCEPT ![f] =
        [k \in DOMAIN cache[f] \cup {key} |-> IF k = key THEN entry ELSE cache[f][k]]]

GetLockFresh(f, key) ==
    [locks EXCEPT ![f] =
        [k \in DOMAIN locks[f] \cup {key} |-> IF k = key THEN FALSE ELSE locks[f][k]]]

\* _get_lock: the lock table after the lookup (a new lock is unlocked)
GetLock(f, key) ==
    IF key \in DOMAIN locks[f] THEN locks
    ELSE [locks EXCEPT ![f] =
            [k \in DOMAIN locks[f] \cup {key} |-> IF k = key THEN FALSE ELSE locks[f][k]]]

LockedNever(f, key) == FALSE

LockedAnyFeature(f, key) ==
    \E g \in Feats : \E k \in DOMAIN locks[g] : k[1] = key[1] /\ locks[g][k]

LockedAnyKey(f, key) == \E k \in DOMAIN locks[f] : locks[f][k]

\* lock.locked()
Locked(f, key) == key \in DOMAIN locks[f] /\ locks[f][key]

AcquireNoop(tbl, f, key) == tbl

\* asyncio.Lock.acquire on a free lock
Acquire(tbl, f, key) == [tbl EXCEPT ![f][key] = TRUE]

ReleaseNoop(tbl, f, key) == tbl

\* asyncio.Lock.release, at the exit of "async with lock"
Release(tbl, f, key) == [tbl EXCEPT ![f][key] = FALSE]

(***************************************************************************)
(* The builder.                                                            *)
(***************************************************************************)
\* bot.get_guild(guild_id) is not None
HasGuild(guild_id) == guild_id \in DOMAIN guilds

\* datetime.isoformat()
IsoFormat(day) == "2024-01-0" \o ToString(day) \o "T00:00:00"

\* the filter of _scan
Matches(f, key, m) ==
    IF f = RoleMembers THEN key[2] \in m.roles ELSE m.premium_since # 0

\* what _scan appends for a matching member
Project(f, m) ==
    IF f = RoleMembers THEN ToString(m.id)
    ELSE [discord_user_id |-> ToString(m.id), username |-> m.name,
          display_name |-> m.display_name,
          premium_since |-> IsoFormat(m.premium_since)]

ScanStepPrepend(f, key, acc, m) ==
    IF Matches(f, key, m) THEN <<Project(f, m)>> \o acc ELSE acc

\* one iteration of "async for member in guild.fetch_members(limit=None)"
ScanStep(f, key, acc, m) == IF Matches(f, key, m) THEN Append(acc, Project(f, m)) ELSE acc

PayloadStamped(f, guild, key, acc) ==
    [guild_id |-> ToString(guild.id), guild_name |-> guild.name,
     count |-> Len(acc), items |-> acc, built_at |-> now]

\* the payload _build_payload returns after a complete scan
Payload(f, guild, key, acc) ==
    IF f = RoleMembers
    THEN [guild_id |-> ToString(guild.id), guild_name |-> guild.name,
          role_id |-> ToString(key[2]),
          role_name |-> IF key[2] \in DOMAIN guild.roles THEN guild.roles[key[2]]
                        ELSE "unknown",
          count |-> Len(acc),
          members |-> [i \in 1..Len(acc) |-> [discord_user_id |-> acc[i]]]]
    ELSE [guild_id |-> ToString(guild.id), guild_name |-> guild.name,
          count |-> Len(acc), boosters |-> acc]

(***************************************************************************)
(* Construction.                                                           *)
(***************************************************************************)
Member(id, name, roles, premium) ==
    [id |-> id, name |-> name, display_name |-> name, roles |-> roles,
     premium_since |-> premium]

\* guild 1 with two members; role 7 is in the role cache, role 8 is not
Guild1 ==
    [id |-> 1, name |-> "lab", roles |-> (7 :> "vip"),
     members |-> << Member(11, "ann", {7}, 1), Member(12, "bob", {8}, 0) >>]

IdleReq ==
    [pc |-> "idle", feat |-> None, key |-> <<>>, t0 |-> 0, idx |-> 0, acc |-> <<>>,
     resp |-> NoResponse]

FeatureInitNoFloor(cfgCache, cfgTimeout) ==
    /\ configured = [f \in Feats |-> [cache_seconds |-> cfgCache,
                                      build_timeout_seconds |-> cfgTimeout]]
    /\ cache_seconds = [f \in Feats |-> cfgCache]
    /\ build_timeout_seconds = [f \in Feats |-> cfgTimeout]
    /\ cache = [f \in Feats |-> <<>>]
    /\ locks = [f \in Feats |-> <<>>]

\* __init__ of both features
FeatureInit(cfgCache, cfgTimeout) ==
    /\ configured = [f \in Feats |-> [cache_seconds |-> cfgCache,
                                      build_timeout_seconds |-> cfgTimeout]]
    /\ cache_seconds = [f \in Feats |-> Max2(10, cfgCache)]
    /\ build_timeout_seconds = [f \in Feats |-> Max2(5, cfgTimeout)]
    /\ cache = [f \in Feats |-> <<>>]
    /\ locks = [f \in Feats |-> <<>>]

\* main after the first on_ready, once start_api has run
ApiInit ==
    /\ readies = 1
    /\ api_started = TRUE
    /\ api_tasks = 1
    /\ listening = 1

\* the bot is connected and the API listens; both features built with the
\* smallest configuration
Init ==
    /\ now = 0
    /\ guilds = (1 :> Guild1)
    /\ ApiInit
    /\ FeatureInit(1, 1)
    /\ req = [r \in Reqs |-> IdleReq]
    /\ running = 0
    /\ scans = [f \in Feats |-> <<>>]

\* values of the arguments cache_seconds and build_timeout_seconds of __init__:
\* below, at and above the floors
CacheSecondsVals == {0 - 1, 1, 10, 11}
BuildTimeoutVals == {0, 5, 6}

\* as Init, the features built with any of these configurations
InitConfigured ==
    /\ now = 0
    /\ guilds = (1 :> Guild1)
    /\ ApiInit
    /\ \E c \in CacheSecondsVals, t \in BuildTimeoutVals : FeatureInit(c, t)
    /\ req = [r \in Reqs |-> IdleReq]
    /\ running = 0
    /\ scans = [f \in Feats |-> <<>>]

\* the members a guild can have: member i has role 7, role 8 or both, and every
\* second one does not boost
PoolMember(i) ==
    Member(10 + i, "m" \o ToString(i),
           IF i % 3 = 1 THEN {7} ELSE IF i % 3 = 2 THEN {8} ELSE {7, 8},
           IF i % 2 = 0 THEN 0 ELSE (i + 1) \div 2)

\* the sequences fetch_members can yield: every order of every set of members
MemberSeqs ==
    { s \in UNION { [1..n -> 1..MaxMembers] : n \in 0..MaxMembers } :
        \A i, j \in DOMAIN s : i # j => s[i] # s[j] }

\* as Init, guild 1 having any of these member lists
InitScan ==
    /\ now = 0
    /\ \E s \in MemberSeqs :
          guilds = (1 :> [Guild1 EXCEPT !.members = [i \in DOMAIN s |-> PoolMember(s[i])]])
    /\ ApiInit
    /\ FeatureInit(1, 1)
    /\ req = [r \in Reqs |-> IdleReq]
    /\ running = 0
    /\ scans = [f \in Feats |-> <<>>]

\* main before bot.start: the features are built, on_ready has not fired
InitMain ==
    /\ now = 0
    /\ guilds = (1 :> Guild1)
    /\ readies = 0
    /\ api_started = FALSE
    /\ api_tasks = 0
    /\ listening = 0
    /\ FeatureInit(1, 1)
    /\ req = [r \in Reqs |-> IdleReq]
    /\ running = 0
    /\ scans = [f \in Feats |-> <<>>]

(***************************************************************************)
(* The handler, in the order of its code.                                  *)
(***************************************************************************)
\* the history counter of a key, and its updates
Scans(f, key) == IF key \in DOMAIN scans[f] THEN scans[f][key] ELSE 0

ScansSet(f, key, n) ==
    [scans EXCEPT ![f] =
        [k \in DOMAIN scans[f] \cup {key} |-> IF k = key THEN n ELSE scans[f][k]]]

Holds(r) == req[r].pc \in {"locked", "scan"}

Done(r, resp) == [req EXCEPT ![r].pc = "done", ![r].resp = resp]

ArriveYields(r, f, hdr, gidRaw, ridRaw) ==
    /\ running = 0
    /\ req[r].pc = "idle"
    /\ \A q \in Reqs : q < r => req[q].pc # "idle"
    /\ LET q == Query(f, gidRaw, ridRaw)
       IN  IF Auth(hdr) /\ q.ok /\ ~CacheHit(f, q.key)
           THEN /\ req' = [req EXCEPT ![r].pc = "locked", ![r].feat = f, ![r].key = q.key]
                /\ locks' = Acquire(GetLock(f, q.key), f, q.key)
                /\ running' = 0
           ELSE /\ req' = Done(r, IF ~Auth(hdr) THEN HTTPUnauthorized
                                  ELSE IF ~q.ok THEN q.resp
                                  ELSE JsonResponse(cache[f][q.key].payload))
                /\ locks' = locks
                /\ running' = r
    /\ UNCHANGED <<now, guilds, mainVars, configured, cache_seconds, build_timeout_seconds,
                   cache, scans>>

\* handler up to the first cache read: auth, query, cache hit
Arrive(r, f, hdr, gidRaw, ridRaw) ==
    /\ running = 0
    /\ req[r].pc = "idle"
    /\ \A q \in Reqs : q < r => req[q].pc # "idle"
    /\ running' = r
    /\ LET q == Query(f, gidRaw, ridRaw)
       IN  req' = IF ~Auth(hdr) THEN Done(r, HTTPUnauthorized)
                  ELSE IF ~q.ok THEN Done(r, q.resp)
                  ELSE IF CacheHit(f, q.key)
                       THEN [req EXCEPT ![r].pc = "done", ![r].feat = f, ![r].key = q.key,
                                        ![r].resp = JsonResponse(cache[f][q.key].payload)]
                  ELSE [req EXCEPT ![r].pc = "get_lock", ![r].feat = f, ![r].key = q.key]
    /\ UNCHANGED <<now, guilds, mainVars, configured, cache_seconds, build_timeout_seconds,
                   cache, locks, scans>>

\* _get_lock, the locked() test and the entry of "async with lock"
TryLock(r) ==
    /\ running = r
    /\ req[r].pc = "get_lock"
    /\ LET f == req[r].feat
           key == req[r].key
       IN  IF Locked(f, key)
           THEN /\ locks' = GetLock(f, key)
                /\ req' = Done(r, HTTPAccepted(f, key))
           ELSE /\ locks' = Acquire(GetLock(f, key), f, key)
                /\ req' = [req EXCEPT ![r].pc = "locked"]
    /\ UNCHANGED <<now, guilds, mainVars, configured, cache_seconds, build_timeout_seconds,
                   cache, running, scans>>

\* inside the lock: the re-check, get_guild, and the start of wait_for(_scan())
BuildStart(r) ==
    /\ running = r
    /\ req[r].pc = "locked"
    /\ LET f == req[r].feat
           key == req[r].key
       IN  IF CacheHit(f, key)
           THEN /\ req' = Done(r, JsonResponse(cache[f][key].payload))
                /\ locks' = Release(locks, f, key)
                /\ running' = r
                /\ scans' = scans
           ELSE IF ~HasGuild(key[1])
           THEN /\ req' = Done(r, HTTPNotFound)
                /\ locks' = Release(locks, f, key)
                /\ running' = r
                /\ scans' = scans
           ELSE /\ req' = [req EXCEPT ![r].pc = "scan", ![r].t0 = now,
                                      ![r].idx = 0, ![r].acc = <<>>]
                /\ locks' = locks
                /\ running' = 0
                /\ scans' = ScansSet(f, key, Scans(f, key) + 1)
    /\ UNCHANGED <<now, guilds, mainVars, configured, cache_seconds, build_timeout_seconds,
                   cache>>

\* _scan receives the next member from guild.fetch_members
ScanNext(r) ==
    /\ running = 0
    /\ req[r].pc = "scan"
    /\ LET f == req[r].feat
           key == req[r].key
           ms == guilds[key[1]].members
       IN  /\ req[r].idx < Len(ms)
           /\ req' = [req EXCEPT ![r].idx = @ + 1,
                                 ![r].acc = ScanStep(f, key, @, ms[req[r].idx + 1])]
    /\ UNCHANGED <<now, guilds, mainVars, configured, cache_seconds, build_timeout_seconds,
                   cache, locks, running,
                   scans>>

ScanDoneNoCommit(r) ==
    /\ running = 0
    /\ req[r].pc = "scan"
    /\ req[r].idx = Len(guilds[req[r].key[1]].members)
    /\ locks' = Release(locks, req[r].feat, req[r].key)
    /\ req' = Done(r, JsonResponse(Payload(req[r].feat, guilds[req[r].key[1]],
                                           req[r].key, req[r].acc)))
    /\ running' = r
    /\ UNCHANGED <<now, guilds, mainVars, configured, cache_seconds, build_timeout_seconds,
                   cache, scans>>

ScanDoneStampsStart(r) ==
    /\ running = 0
    /\ req[r].pc = "scan"
    /\ req[r].idx = Len(guilds[req[r].key[1]].members)
    /\ LET payload == Payload(req[r].feat, guilds[req[r].key[1]], req[r].key, req[r].acc)
       IN  /\ cache' = CachePut(req[r].feat, req[r].key, CacheEntry(req[r].t0, payload))
           /\ req' = Done(r, JsonResponse(payload))
    /\ locks' = Release(locks, req[r].feat, req[r].key)
    /\ scans' = ScansSet(req[r].feat, req[r].key, 0)
    /\ running' = r
    /\ UNCHANGED <<now, guilds, mainVars, configured, cache_seconds, build_timeout_seconds>>

\* the member sequence ends: payload, cache write at time.time(), lock release
ScanDone(r) ==
    /\ running = 0
    /\ req[r].pc = "scan"
    /\ LET f == req[r].feat
           key == req[r].key
           guild == guilds[key[1]]
           payload == Payload(f, guild, key, req[r].acc)
       IN  /\ req[r].idx = Len(guild.members)
           /\ cache' = CachePut(f, key, CacheEntry(now, payload))
           /\ locks' = Release(locks, f, key)
           /\ req' = Done(r, JsonResponse(payload))
           /\ scans' = ScansSet(f, key, 0)
    /\ running' = r
    /\ UNCHANGED <<now, guilds, mainVars, configured, cache_seconds, build_timeout_seconds>>

\* guild.fetch_members raises (an HTTP error of the upstream): the exception
\* leaves wait_for, _build_payload and "async with lock"
ScanError(r) ==
    /\ running = 0
    /\ req[r].pc = "scan"
    /\ scans[req[r].feat][req[r].key] < MaxScans
    /\ locks' = Release(locks, req[r].feat, req[r].key)
    /\ req' = Done(r, InternalServerError)
    /\ running' = r
    /\ UNCHANGED <<now, guilds, mainVars, configured, cache_seconds, build_timeout_seconds,
                   cache, scans>>

TimerDueLate(r) ==
    req[r].pc = "scan" /\ now - req[r].t0 > build_timeout_seconds[req[r].feat]

\* wait_for(_scan(), timeout=self.build_timeout_seconds): the timer is due
TimerDue(r) ==
    req[r].pc = "scan" /\ now - req[r].t0 >= build_timeout_seconds[req[r].feat]

TimeoutStoresPartial(r) ==
    /\ running = 0
    /\ TimerDue(r)
    /\ locks' = Release(locks, req[r].feat, req[r].key)
    /\ cache' = CachePut(req[r].feat, req[r].key,
                         CacheEntry(now, Payload(req[r].feat, guilds[req[r].key[1]],
                                                 req[r].key, req[r].acc)))
    /\ req' = Done(r, HTTPAccepted(req[r].feat, req[r].key))
    /\ running' = r
    /\ UNCHANGED <<now, guilds, mainVars, configured, cache_seconds, build_timeout_seconds,
                   scans>>

TimeoutKeepsLock(r) ==
    /\ running = 0
    /\ TimerDue(r)
    /\ req' = Done(r, HTTPAccepted(req[r].feat, req[r].key))
    /\ running' = r
    /\ UNCHANGED <<now, guilds, mainVars, configured, cache_seconds, build_timeout_seconds,
                   cache, locks, scans>>

TimeoutRestarts(r) ==
    /\ running = 0
    /\ TimerDue(r)
    /\ req' = [req EXCEPT ![r].t0 = now, ![r].idx = 0, ![r].acc = <<>>]
    /\ scans' = ScansSet(req[r].feat, req[r].key, Scans(req[r].feat, req[r].key) + 1)
    /\ UNCHANGED <<now, guilds, mainVars, configured, cache_seconds, build_timeout_seconds,
                   cache, locks, running>>

\* wait_for's timer fires: asyncio.TimeoutError -> 202, the lock is released
Timeout(r) ==
    /\ running = 0
    /\ TimerDue(r)
    /\ locks' = Release(locks, req[r].feat, req[r].key)
    /\ req' = Done(r, HTTPAccepted(req[r].feat, req[r].key))
    /\ running' = r
    /\ UNCHANGED <<now, guilds, mainVars, configured, cache_seconds, build_timeout_seconds,
                   cache, scans>>

\* the response is sent and the coroutine ends
Finish(r) ==
    /\ running = r
    /\ req[r].pc = "done"
    /\ req' = [req EXCEPT ![r] = IdleReq]
    /\ running' = 0
    /\ UNCHANGED <<now, guilds, mainVars, configured, cache_seconds, build_timeout_seconds,
                   cache, locks, scans>>

\* one second passes; a due wait_for timer fires before the clock moves on
Tick(maxTime) ==
    /\ running = 0
    /\ now < maxTime
    /\ \A r \in Reqs : ~TimerDue(r)
    /\ now' = now + 1
    /\ UNCHANGED <<guilds, mainVars, configured, cache_seconds, build_timeout_seconds,
                   cache, locks, req, running,
                   scans>>

\* upstream changes between two awaits: member i of guild g gets role 7 and boosts
MemberUpdate(g, i) ==
    /\ running = 0
    /\ 7 \notin guilds[g].members[i].roles
    /\ guilds' = [guilds EXCEPT ![g].members[i].roles = @ \cup {7},
                                ![g].members[i].premium_since = 2]
    /\ UNCHANGED <<now, mainVars, configured, cache_seconds, build_timeout_seconds,
                   cache, locks, req, running,
                   scans>>

(***************************************************************************)
(* main: on_ready and the start of the HTTP API.                           *)
(***************************************************************************)
OnReadyAlways ==
    /\ running = 0
    /\ readies < MaxReady
    /\ readies' = readies + 1
    /\ api_started' = TRUE
    /\ api_tasks' = api_tasks + 1
    /\ UNCHANGED <<now, guilds, listening, configured, cache_seconds, build_timeout_seconds,
                   cache, locks, req, running, scans>>

\* on_ready: the Discord client is ready (again, after a reconnect)
OnReady ==
    /\ running = 0
    /\ readies < MaxReady
    /\ readies' = readies + 1
    /\ IF ~api_started
       THEN api_started' = TRUE /\ api_tasks' = api_tasks + 1
       ELSE UNCHANGED <<api_started, api_tasks>>
    /\ UNCHANGED <<now, guilds, listening, configured, cache_seconds, build_timeout_seconds,
                   cache, locks, req, running, scans>>

\* a created start_api task runs: runner.setup(), site.start()
StartApi ==
    /\ running = 0
    /\ listening < api_tasks
    /\ listening' = listening + 1
    /\ UNCHANGED <<now, guilds, readies, api_started, api_tasks, configured, cache_seconds,
                   build_timeout_seconds, cache, locks, req, running, scans>>

(***************************************************************************)
(* Requests the environment sends.                                         *)
(***************************************************************************)
Headers == {ApiKey, "wrong"}
GuildIdVals == { <<>>, <<" ">>, <<"x">>, <<"1">>, <<" ", "1">>, <<"2">> }
RoleIdVals == { <<>>, <<"7", "x">>, <<"7">>, <<"7", " ">> }

Requests(feats) ==
    \E r \in Reqs, f \in feats, hdr \in Headers, gid \in GuildIdVals, rid \in RoleIdVals :
        Arrive(r, f, hdr, gid, rid)

Handlers ==
    \/ \E r \in Reqs : TryLock(r)
    \/ \E r \in Reqs : BuildStart(r)
    \/ \E r \in Reqs : ScanNext(r)
    \/ \E r \in Reqs : ScanDone(r)
    \/ \E r \in Reqs : ScanError(r)
    \/ \E r \in Reqs : Timeout(r)
    \/ \E r \in Reqs : Finish(r)

Upstream == \E g \in DOMAIN guilds : \E i \in 1..Len(guilds[g].members) : MemberUpdate(g, i)

\* both features served, short horizon
Next == Requests(Feats) \/ Handlers \/ Tick(MaxTime)

Spec == Init /\ [][Next]_vars

\* /role-members alone, long horizon, upstream changes
NextRole == Requests({RoleMembers}) \/ Handlers \/ Tick(MaxTimeLong) \/ Upstream

SpecRole == Init /\ [][NextRole]_vars

\* /boosters alone, long horizon, upstream changes
NextBoosters == Requests({Boosters}) \/ Handlers \/ Tick(MaxTimeLong) \/ Upstream

SpecBoosters == Init /\ [][NextBoosters]_vars

\* both features served over a horizon too short for a wait_for timer to fire
NextBrief ==
    \/ Requests(Feats)
    \/ \E r \in Reqs : TryLock(r)
    \/ \E r \in Reqs : BuildStart(r)
    \/ \E r \in Reqs : ScanNext(r)
    \/ \E r \in Reqs : ScanDone(r)
    \/ \E r \in Reqs : ScanError(r)
    \/ \E r \in Reqs : Finish(r)
    \/ Tick(MaxTimeBrief)

SpecBrief == Init /\ [][NextBrief]_vars

\* /role-members alone, authorised requests for two roles of guild 1
RoleIdValsKeys == { <<"7">>, <<"8">> }

RequestsKeys ==
    \E r \in Reqs, rid \in RoleIdValsKeys : Arrive(r, RoleMembers, ApiKey, <<"1">>, rid)

NextKeys == RequestsKeys \/ Handlers \/ Tick(MaxTime)

SpecKeys == Init /\ [][NextKeys]_vars

\* authorised /role-members requests for one key, any configuration, an
\* upstream that answers or stalls
RequestsConfigured ==
    \E r \in Reqs : Arrive(r, RoleMembers, ApiKey, <<"1">>, <<"7">>)

NextConfigured ==
    \/ RequestsConfigured
    \/ \E r \in Reqs : TryLock(r)
    \/ \E r \in Reqs : BuildStart(r)
    \/ \E r \in Reqs : ScanNext(r)
    \/ \E r \in Reqs : ScanDone(r)
    \/ \E r \in Reqs : Timeout(r)
    \/ \E r \in Reqs : Finish(r)
    \/ Tick(MaxTimeLong)

SpecConfigured == InitConfigured /\ [][NextConfigured]_vars

\* authorised requests of both features for guild 1, whose member list is any
\* of MemberSeqs, over a horizon too short for a wait_for timer to fire
RequestsScan ==
    \E r \in Reqs, f \in Feats : Arrive(r, f, ApiKey, <<"1">>, <<"7">>)

NextScan ==
    \/ RequestsScan
    \/ \E r \in Reqs : TryLock(r)
    \/ \E r \in Reqs : BuildStart(r)
    \/ \E r \in Reqs : ScanNext(r)
    \/ \E r \in Reqs : ScanDone(r)
    \/ \E r \in Reqs : Finish(r)
    \/ Tick(MaxTimeBrief)

SpecScan == InitScan /\ [][NextScan]_vars

\* /role-members requests for one key over the long horizon, guild 1's member
\* list being any of MemberSeqs and staying as it is
SpecRebuild == InitScan /\ [][NextConfigured]_vars

\* requests reach the handlers once the API listens
ApiRequests == listening > 0 /\ RequestsScan

\* main from before bot.start: on_ready events, the start of the API, then
\* requests of both features
NextMain == OnReady \/ StartApi \/ ApiRequests \/ Handlers \/ Tick(MaxTime)

SpecMain == InitMain /\ [][NextMain]_vars

(***************************************************************************)
(* Fairness.  The event loop runs a handler's synchronous code to its next *)
(* await (weak fairness of the handler steps), time passes, and a due      *)
(* wait_for timer is run (strong fairness: requests arriving in between    *)
(* disable both for a moment).  Nothing forces a request to arrive or the  *)
(* upstream to answer: ScanNext, ScanDone and ScanError are not fair.      *)
(***************************************************************************)
Fairness ==
    /\ \A r \in Reqs : WF_vars(TryLock(r)) /\ WF_vars(BuildStart(r)) /\ WF_vars(Finish(r))
    /\ \A r \in Reqs : SF_vars(Timeout(r))
    /\ SF_vars(Tick(MaxTimeLong))

SpecRoleFair == SpecRole /\ Fairness

SpecBoostersFair == SpecBoosters /\ Fairness

(***************************************************************************)
(* Properties.                                                             *)
(***************************************************************************)
SameKey(r, q) == req[r].feat = req[q].feat /\ req[r].key = req[q].key

\* the entry of the key of request r
EntryOf(r) == cache[req[r].feat][req[r].key]

HasEntry(r) == req[r].key \in DOMAIN cache[req[r].feat]

\* C1: for every key and under every interleaving of requests, at most one
\* request is inside the build phase (between the entry and the exit of
\* "async with lock") for that key, and while one is, the key's lock is locked.
C1_OneBuilderPerKey ==
    /\ \A r, q \in Reqs : (r # q /\ Holds(r) /\ Holds(q)) => ~SameKey(r, q)
    /\ \A r \in Reqs :
          Holds(r) => /\ req[r].key \in DOMAIN locks[req[r].feat]
                      /\ locks[req[r].feat][req[r].key]

\* a second request for a key arrives while the first is scanning for it
C1_Witness ==
    \E r, q \in Reqs :
        r # q /\ req[r].pc = "scan" /\ req[q].pc = "get_lock" /\ SameKey(r, q)

\* C2: a request that returns 200 returns the payload of the entry of its key,
\* and that entry is younger than cache_seconds at the moment of return; an
\* entry of age cache_seconds or more is never served.
C2_ServedEntryIsFresh ==
    \A r \in Reqs :
        (req[r].pc = "done" /\ req[r].resp.status = 200) =>
            /\ HasEntry(r)
            /\ req[r].resp.body = EntryOf(r).payload
            /\ now - EntryOf(r).ts < cache_seconds[req[r].feat]

\* an entry is served in the last second of its validity
C2_Witness ==
    \E r \in Reqs :
        /\ req[r].pc = "done" /\ req[r].resp.status = 200
        /\ HasEntry(r)
        /\ now - EntryOf(r).ts = cache_seconds[req[r].feat] - 1

\* C3: a scan that ends in the 202 of the timeout leaves the whole cache as it
\* was (an absent entry stays absent, an expired one keeps its timestamp and
\* payload), and the response carries none of the members matched so far.
C3_TimeoutLeavesCache ==
    [][\A r \in Reqs :
          (req[r].pc = "scan" /\ req'[r].pc = "done" /\ req'[r].resp.status = 202) =>
              /\ cache' = cache
              /\ DOMAIN req'[r].resp.body = {"status", "guild_id", "role_id"}
              /\ req'[r].resp.body.status = "building_cache"]_vars

\* a scan that had matched a member timed out over an expired entry, which is kept
C3_Witness ==
    \E r \in Reqs :
        /\ req[r].pc = "done" /\ req[r].resp.status = 202
        /\ req[r].acc # <<>>
        /\ HasEntry(r)
        /\ now - EntryOf(r).ts >= cache_seconds[req[r].feat]
        /\ ~locks[req[r].feat][req[r].key]

\* C4: a request that holds the lock of its key releases it in the step in which
\* it leaves the build phase, whatever the exit (404, 200, the 202 of the
\* timeout or an error of the upstream); a locked lock always has a request inside the build phase; and
\* every request inside the build phase leaves it (stated for the requests
\* whose timeout falls within the horizon of the clock).
C4_ReleasedOnEveryExit ==
    /\ [](\A f \in Feats : \A k \in DOMAIN locks[f] :
            locks[f][k] => \E r \in Reqs : Holds(r) /\ req[r].feat = f /\ req[r].key = k)
    /\ [][\A r \in Reqs :
            (Holds(r) /\ req'[r].pc \notin {"locked", "scan"}) =>
                /\ locks[req[r].feat][req[r].key]
                /\ ~locks'[req[r].feat][req[r].key]]_vars
    /\ \A r \in Reqs :
          (Holds(r) /\ now + build_timeout_seconds[req[r].feat] <= MaxTimeLong)
              ~> ~Holds(r)

\* a scan that had received members timed out and the lock of its key is free
C4_Witness ==
    \E r \in Reqs :
        /\ req[r].pc = "done" /\ req[r].resp.status = 202
        /\ req[r].idx > 0
        /\ ~HasEntry(r)
        /\ ~locks[req[r].feat][req[r].key]

\* C5: a scan never runs for more than build_timeout_seconds; a scan that ends
\* in 202 does so build_timeout_seconds after it started and leaves the lock of
\* its key free in the same step; and a scan whose upstream delivers nothing
\* more does end (stated for the scans whose timeout falls within the horizon).
C5_StalledScanTimesOut ==
    /\ [](\A r \in Reqs :
            req[r].pc = "scan" => now - req[r].t0 <= build_timeout_seconds[req[r].feat])
    /\ [][\A r \in Reqs :
            (req[r].pc = "scan" /\ req'[r].pc = "done" /\ req'[r].resp.status = 202) =>
                /\ now - req[r].t0 = build_timeout_seconds[req[r].feat]
                /\ ~locks'[req[r].feat][req[r].key]]_vars
    /\ \A r \in Reqs :
          (req[r].pc = "scan" /\ req[r].t0 + build_timeout_seconds[req[r].feat] <= MaxTimeLong)
              ~> (req[r].pc # "scan")

\* the upstream delivered nothing: 202 exactly at the deadline, lock free
C5_Witness ==
    \E r \in Reqs :
        /\ req[r].pc = "done" /\ req[r].resp.status = 202
        /\ req[r].idx = 0
        /\ now - req[r].t0 = build_timeout_seconds[req[r].feat]
        /\ req[r].key \in DOMAIN locks[req[r].feat]
        /\ ~locks[req[r].feat][req[r].key]

\* another request is inside the build phase for the key of request r
BusyFor(r) == \E q \in Reqs : q # r /\ Holds(q) /\ SameKey(r, q)

\* the entry of the key of request r is present and younger than cache_seconds
FreshEntry(r) == HasEntry(r) /\ now - EntryOf(r).ts < cache_seconds[req[r].feat]

\* C6: a request without a valid entry that finds the lock of its key held
\* answers 202 in its next step, without acquiring the lock, without starting
\* a scan and without changing the cache or the lock table.
C6_BusyAnswersBuilding ==
    [][\A r \in Reqs :
          (req[r].pc = "get_lock" /\ BusyFor(r)) =>
              /\ req'[r].pc = "done"
              /\ req'[r].resp.status = 202
              /\ req'[r].resp.body.status = "building_cache"
              /\ cache' = cache
              /\ locks' = locks
              /\ scans' = scans]_vars

\* two requests for a key with no entry: one scans, the other got 202
C6_Witness ==
    \E r, q \in Reqs :
        /\ r # q /\ SameKey(r, q)
        /\ req[r].pc = "scan"
        /\ req[q].pc = "done" /\ req[q].resp.status = 202
        /\ ~HasEntry(q)

\* C7 as claimed: a request whose guild get_guild does not find never holds the
\* lock of its key.
C7_NoLockForUnknownGuild ==
    \A r \in Reqs : (req[r].key # <<>> /\ ~HasGuild(req[r].key[1])) => ~Holds(r)

\* C7 as amended: a request that is inside the lock without a valid entry, and
\* whose guild get_guild does not find, answers 404 in its next step, releasing
\* the lock it holds, starting no scan and leaving the cache unchanged; a 404
\* is only given for a guild that is not found, with the lock of the key
\* created and free.
C7_NotFoundReleasesLock ==
    /\ [][\A r \in Reqs :
            (req[r].pc = "locked" /\ ~FreshEntry(r) /\ ~HasGuild(req[r].key[1])) =>
                /\ req'[r].pc = "done"
                /\ req'[r].resp.status = 404
                /\ locks[req[r].feat][req[r].key]
                /\ ~locks'[req[r].feat][req[r].key]
                /\ cache' = cache
                /\ scans' = scans]_vars
    /\ [](\A r \in Reqs :
            req[r].resp.status = 404 =>
                /\ ~HasGuild(req[r].key[1])
                /\ req[r].key \in DOMAIN locks[req[r].feat]
                /\ ~locks[req[r].feat][req[r].key])

\* a 404 was given and the lock of the key exists: it was acquired and released
C7_Witness ==
    \E r \in Reqs :
        /\ req[r].pc = "done" /\ req[r].resp.status = 404
        /\ req[r].key \in DOMAIN locks[req[r].feat]
        /\ ~locks[req[r].feat][req[r].key]

\* the requests scanning for key k of feature f
Scanning(f, k) == {r \in Reqs : req[r].pc = "scan" /\ req[r].feat = f /\ req[r].key = k}

\* key k of feature f has an entry younger than cache_seconds
Valid(f, k) == k \in DOMAIN cache[f] /\ now - cache[f][k].ts < cache_seconds[f]

\* C8 as claimed: while a key has no valid entry, exactly one scan is started
\* for it: the count of scans started since its entry was last written is at
\* most one.
C8_OneScanPerWindow ==
    \A f \in Feats : \A k \in DOMAIN scans[f] : scans[f][k] <= 1

\* C8 as amended: at most one scan per key is in progress at any instant; a scan
\* for a key starts only when the key has no valid entry and no scan in
\* progress; a scan ends either in 200, writing the entry that makes the key
\* valid again, or leaving the cache as it was, in the 202 of the timeout
\* build_timeout_seconds after it started or in an error of the upstream (a
\* later request then starts another scan); a key becomes valid only through the 200 of its scan; and a request
\* that comes for a key while a scan for it is in progress gets 202.
C8_OneScanAtATime ==
    /\ [](\A f \in Feats : \A k \in DOMAIN scans[f] :
            /\ Cardinality(Scanning(f, k)) <= 1
            /\ Cardinality(Scanning(f, k)) <= scans[f][k])
    /\ [][\A r \in Reqs :
            (req[r].pc # "scan" /\ req'[r].pc = "scan") =>
                /\ Scanning(req'[r].feat, req'[r].key) = {}
                /\ ~Valid(req'[r].feat, req'[r].key)
                /\ scans'[req'[r].feat][req'[r].key] = Scans(req'[r].feat, req'[r].key) + 1]_vars
    /\ [][\A r \in Reqs :
            (req[r].pc = "scan" /\ req'[r].pc # "scan") =>
                \/ /\ req'[r].resp.status = 200
                   /\ Valid(req[r].feat, req[r].key)'
                   /\ cache'[req[r].feat][req[r].key].ts = now
                   /\ scans'[req[r].feat][req[r].key] = 0
                \/ /\ req'[r].resp.status = 202
                   /\ now - req[r].t0 >= build_timeout_seconds[req[r].feat]
                   /\ cache' = cache
                   /\ scans' = scans
                \/ /\ req'[r].resp.status = 500
                   /\ cache' = cache
                   /\ scans' = scans]_vars
    /\ [][\A f \in Feats : \A k \in DOMAIN cache'[f] :
            (~Valid(f, k) /\ Valid(f, k)') =>
                \E r \in Scanning(f, k) : req'[r].pc = "done" /\ req'[r].resp.status = 200]_vars
    /\ [][\A r \in Reqs :
            (req[r].pc = "get_lock" /\ Scanning(req[r].feat, req[r].key) # {}) =>
                req'[r].pc = "done" /\ req'[r].resp.status = 202]_vars

\* a second scan is in progress for a key whose first scan timed out
C8_Witness ==
    \E f \in Feats : \E k \in DOMAIN scans[f] :
        scans[f][k] = 2 /\ Scanning(f, k) # {} /\ ~Valid(f, k)

\* request r arrives in this step with a well-formed key
Arrives(r) == req[r].pc = "idle" /\ req'[r].pc # "idle" /\ req'[r].key # <<>>

\* C9: a request that arrives for a key with an entry written at ts returns,
\* when now - ts < cache_seconds, that entry's payload in the same step, and
\* cache, lock table and scans stay as they were; when now - ts >= cache_seconds
\* it goes on to the lock, and with no other request inside the build phase for
\* the key it acquires the lock and, the guild being known, starts a scan.
C9_HitBeforeTtlBuildAfter ==
    /\ [][\A r \in Reqs :
            (Arrives(r) /\ req'[r].key \in DOMAIN cache[req'[r].feat]) =>
                LET e == cache[req'[r].feat][req'[r].key]
                IN  IF now - e.ts < cache_seconds[req'[r].feat]
                    THEN /\ req'[r].pc = "done"
                         /\ req'[r].resp = [status |-> 200, body |-> e.payload]
                         /\ cache' = cache
                         /\ locks' = locks
                         /\ scans' = scans
                    ELSE req'[r].pc = "get_lock"]_vars
    /\ [][\A r \in Reqs :
            (req[r].pc = "get_lock" /\ HasEntry(r) /\ ~FreshEntry(r) /\ ~BusyFor(r)) =>
                req'[r].pc = "locked" /\ locks'[req[r].feat][req[r].key]]_vars
    /\ [][\A r \in Reqs :
            (req[r].pc = "locked" /\ HasEntry(r) /\ ~FreshEntry(r)
                /\ HasGuild(req[r].key[1])) =>
                /\ req'[r].pc = "scan"
                /\ req'[r].t0 = now
                /\ scans'[req[r].feat][req[r].key] = scans[req[r].feat][req[r].key] + 1]_vars

\* a scan started exactly cache_seconds after the entry of its key was written,
\* and the upstream has changed since: the entry no longer is what a scan gives
C9_Witness ==
    \E r \in Reqs :
        /\ req[r].pc = "scan"
        /\ HasEntry(r)
        /\ req[r].t0 - EntryOf(r).ts = cache_seconds[req[r].feat]
        /\ EntryOf(r).payload.count # Cardinality({i \in 1..Len(guilds[1].members) :
                                          Matches(req[r].feat, req[r].key, guilds[1].members[i])})

\* query values that are empty after strip() or that int() rejects
BadGuildIdVals == { <<>>, <<" ">>, <<"x">> }
BadRoleIdVals == { <<>>, <<"7", "x">> }

\* C10: a request with a missing or non-integer guild_id (or role_id, for
\* /role-members) is answered 400 in its first step, without a key, and that
\* step and the end of the request leave cache, lock table and scans as they
\* were.
C10_InvalidKeyTouchesNothing ==
    /\ [][\A r \in Reqs :
            (running = 0 /\ running' = r) =>
            \A f \in Feats, gid \in GuildIdVals, rid \in RoleIdVals :
            (/\ gid \in BadGuildIdVals \/ (f = RoleMembers /\ rid \in BadRoleIdVals)
             /\ Arrive(r, f, ApiKey, gid, rid)) =>
                /\ req'[r].pc = "done"
                /\ req'[r].resp.status = 400
                /\ req'[r].key = <<>>
                /\ cache' = cache
                /\ locks' = locks
                /\ scans' = scans]_vars
    /\ [][\A r \in Reqs :
            req[r].resp.status = 400 =>
                /\ req'[r] = IdleReq
                /\ cache' = cache
                /\ locks' = locks
                /\ scans' = scans]_vars

\* a 400 is given while another request is scanning
C10_Witness ==
    \E r, q \in Reqs :
        /\ req[r].pc = "done" /\ req[r].resp.status = 400
        /\ req[q].pc = "scan"

\* the lock table tbl and locks agree on every key of feature f but k
SameLocksBut(tbl, f, k) ==
    /\ \A g \in Feats \ {f} : tbl[g] = locks[g]
    /\ \A j \in DOMAIN locks[f] \ {k} : j \in DOMAIN tbl[f] /\ tbl[f][j] = locks[f][j]
    /\ DOMAIN tbl[f] \subseteq DOMAIN locks[f] \cup {k}

\* C11: a request that reaches the lock of its key while no request is inside
\* the build phase for that key acquires the lock in its next step and, the
\* guild being known, starts its scan in the step after, whatever locks of
\* other keys are held; it gets 202 at the lock only when a request is inside
\* the build phase for its own key; and these steps leave the locks of all
\* other keys as they were.
C11_DistinctKeysIndependent ==
    /\ [][\A r \in Reqs :
            (req[r].pc = "get_lock" /\ ~BusyFor(r)) =>
                /\ req'[r].pc = "locked"
                /\ locks'[req[r].feat][req[r].key]
                /\ SameLocksBut(locks', req[r].feat, req[r].key)]_vars
    /\ [][\A r \in Reqs :
            (req[r].pc = "get_lock" /\ req'[r].resp.status = 202) => BusyFor(r)]_vars
    /\ [][\A r \in Reqs :
            (req[r].pc = "locked" /\ HasGuild(req[r].key[1])) =>
                /\ req'[r].pc = "scan"
                /\ SameLocksBut(locks', req[r].feat, req[r].key)]_vars

\* scans for two keys of one feature are in progress at the same time
C11_Witness ==
    \E r, q \in Reqs :
        /\ req[r].pc = "scan" /\ req[q].pc = "scan"
        /\ req[r].feat = req[q].feat
        /\ req[r].key # req[q].key

\* C12: the 202 of a timeout frees the lock of the key and leaves no scan for
\* it; a scan is started only by a request that has arrived, read the cache
\* and acquired the lock (the request that timed out only ends, and when a scan
\* ends no request is on its way to the lock); and a request that arrives
\* for a key without a valid entry whose earlier scan ended without a cache
\* write goes to the lock, acquires it instead of answering 202, and starts a
\* scan from the first member with a new deadline.
C12_RetryOnlyByNextRequest ==
    /\ [][\A r \in Reqs :
            (req[r].pc = "scan" /\ req'[r].pc = "done" /\ req'[r].resp.status = 202) =>
                /\ ~locks'[req[r].feat][req[r].key]
                /\ \A q \in Reqs : ~(req'[q].pc = "scan" /\ req'[q].feat = req[r].feat
                                      /\ req'[q].key = req[r].key)
                /\ \A q \in Reqs : req'[q].pc \notin {"get_lock", "locked"}]_vars
    /\ [][\A f \in Feats : \A k \in DOMAIN scans'[f] :
            scans'[f][k] > Scans(f, k) =>
                \E r \in Reqs : /\ req[r].pc = "locked" /\ req'[r].pc = "scan"
                                /\ req[r].feat = f /\ req[r].key = k]_vars
    /\ [][\A r \in Reqs :
            /\ (req[r].pc # "scan" /\ req'[r].pc = "scan") => req[r].pc = "locked"
            /\ (req[r].pc # "locked" /\ req'[r].pc = "locked") => req[r].pc = "get_lock"
            /\ (req[r].pc # "get_lock" /\ req'[r].pc = "get_lock") =>
                    req[r].pc = "idle" /\ running = 0
            /\ req[r].pc = "done" => req'[r] = IdleReq]_vars
    /\ [][\A r \in Reqs :
            (Arrives(r) /\ ~Valid(req'[r].feat, req'[r].key)) => req'[r].pc = "get_lock"]_vars
    /\ [][\A r \in Reqs :
            (/\ req[r].pc = "get_lock"
             /\ Scans(req[r].feat, req[r].key) >= 1
             /\ Scanning(req[r].feat, req[r].key) = {}) =>
                req'[r].pc = "locked" /\ req'[r].resp.status # 202]_vars
    /\ [][\A r \in Reqs :
            (/\ req[r].pc = "locked"
             /\ Scans(req[r].feat, req[r].key) >= 1
             /\ HasGuild(req[r].key[1])) =>
                /\ req'[r].pc = "scan"
                /\ req'[r].t0 = now /\ req'[r].idx = 0 /\ req'[r].acc = <<>>
                /\ scans'[req[r].feat][req[r].key] = scans[req[r].feat][req[r].key] + 1]_vars

\* a scan is in progress for a key whose previous scan ended in the timeout: the
\* upstream raises only before the MaxScans-th scan, and a cache write resets
\* the count
C12_Witness ==
    \E r \in Reqs :
        /\ req[r].pc = "scan"
        /\ Scans(req[r].feat, req[r].key) = MaxScans + 1
        /\ req[r].t0 >= build_timeout_seconds[req[r].feat]
        /\ req[r].idx = 0

\* the ttl and the deadline a feature must use, from what it was configured with
EffectiveTtl(f) ==
    IF configured[f].cache_seconds < 10 THEN 10 ELSE configured[f].cache_seconds

EffectiveDeadline(f) ==
    IF configured[f].build_timeout_seconds < 5 THEN 5
    ELSE configured[f].build_timeout_seconds

\* C13: whatever the configured values, a feature's cache_seconds is the larger
\* of 10 and the configured value and its build_timeout_seconds the larger of 5
\* and the configured value, for the whole run; an arriving request is served an
\* entry exactly when the entry's age is below that ttl; and a scan is never
\* older than that deadline and ends in 202 exactly at it.
C13_FloorsEnforced ==
    /\ [](\A f \in Feats :
            /\ cache_seconds[f] = EffectiveTtl(f)
            /\ cache_seconds[f] >= 10
            /\ build_timeout_seconds[f] = EffectiveDeadline(f)
            /\ build_timeout_seconds[f] >= 5)
    /\ [][\A r \in Reqs :
            (Arrives(r) /\ req'[r].key \in DOMAIN cache[req'[r].feat]) =>
                LET f == req'[r].feat
                    e == cache[f][req'[r].key]
                IN  /\ (req'[r].resp.status = 200) <=> (now - e.ts < EffectiveTtl(f))
                    /\ (req'[r].pc = "get_lock") <=> (now - e.ts >= EffectiveTtl(f))]_vars
    /\ [](\A r \in Reqs :
            req[r].pc = "scan" => now - req[r].t0 <= EffectiveDeadline(req[r].feat))
    /\ [][\A r \in Reqs :
            (req[r].pc = "scan" /\ req'[r].pc = "done" /\ req'[r].resp.status = 202) =>
                now - req[r].t0 = EffectiveDeadline(req[r].feat)]_vars

\* configured with cache_seconds = 1, an entry 9 seconds old is served
C13_Witness ==
    \E r \in Reqs :
        /\ req[r].pc = "done" /\ req[r].resp.status = 200
        /\ configured[req[r].feat].cache_seconds = 1
        /\ HasEntry(r)
        /\ now - EntryOf(r).ts = 9

\* the members of the guild of key that the feature must list, in upstream order
MatchingMembers(f, key) ==
    SelectSeq(guilds[key[1]].members,
              LAMBDA m : IF f = RoleMembers THEN key[2] \in m.roles
                         ELSE m.premium_since # 0)

\* the list of a payload
Listed(f, body) == IF f = RoleMembers THEN body.members ELSE body.boosters

\* C14: whatever finite member sequence the upstream yields, the payload of a
\* 200 lists exactly the members that have the role (for /boosters: that
\* boost), one item per member in the order the upstream yielded them, and its
\* count is the length of the list; while scanning, the accumulator holds the
\* matches among the members received so far.
C14_PayloadListsMatchesInOrder ==
    /\ \A r \in Reqs :
          (req[r].pc = "done" /\ req[r].resp.status = 200) =>
              LET f == req[r].feat
                  ms == MatchingMembers(f, req[r].key)
                  body == req[r].resp.body
              IN  /\ Len(Listed(f, body)) = Len(ms)
                  /\ \A i \in 1..Len(ms) :
                        /\ Listed(f, body)[i].discord_user_id = ToString(ms[i].id)
                        /\ f = Boosters => Listed(f, body)[i].username = ms[i].name
                  /\ body.count = Len(Listed(f, body))
    /\ \A r \in Reqs :
          req[r].pc = "scan" =>
              /\ Len(req[r].acc) <= req[r].idx
              /\ Len(req[r].acc) <= Len(MatchingMembers(req[r].feat, req[r].key))

\* the upstream yielded a member with role 7, one without it and another with
\* it, in descending order of id: two members listed, the larger id first
C14_Witness ==
    \E r \in Reqs :
        /\ req[r].pc = "done" /\ req[r].resp.status = 200
        /\ req[r].feat = RoleMembers
        /\ Len(guilds[1].members) = 3
        /\ req[r].resp.body.count = 2
        /\ req[r].resp.body.members[1].discord_user_id = "13"
        /\ req[r].resp.body.members[2].discord_user_id = "11"

C16_CommitUnderLock ==
    [][\A r \in Reqs :
          (req[r].pc = "scan" /\ req'[r].pc = "done" /\ req'[r].resp.status = 200) =>
              LET f == req[r].feat
                  k == req[r].key
              IN  /\ locks[f][k]
                  /\ \A q \in Reqs \ {r} : ~(Holds(q) /\ SameKey(q, r))
                  /\ cache'[f][k] = [ts |-> now, payload |-> req'[r].resp.body]
                  /\ now >= req[r].t0
                  /\ DOMAIN cache'[f] = DOMAIN cache[f] \cup {k}
                  /\ \A j \in DOMAIN cache[f] \ {k} : cache'[f][j] = cache[f][j]
                  /\ \A g \in Feats \ {f} : cache'[g] = cache[g]
                  /\ ~locks'[f][k]]_vars

\* a scan ended in 200 a second or more after it started: the entry carries the
\* time of the end
C16_Witness ==
    \E r \in Reqs :
        /\ req[r].pc = "done" /\ req[r].resp.status = 200
        /\ req[r].idx > 0
        /\ EntryOf(r).ts = now
        /\ req[r].t0 < now

\* request r ends a scan for key k of feature f in 200 in this step
Commits(r, f, k) ==
    /\ req[r].pc = "scan" /\ req[r].feat = f /\ req[r].key = k
    /\ req'[r].pc = "done" /\ req'[r].resp.status = 200

\* C17: the entry of a key appears or changes only in the step in which a scan
\* for that key ends in 200 (so every other step, whatever it answers and
\* whatever key it is for, leaves it as it was); an entry is never removed; the
\* lock table never loses a key and gains one only in the lock step of a
\* request for that key; and a locked lock becomes free only in the step in
\* which its holder leaves the build phase.
C17_CacheChangesOnlyAtCommit ==
    /\ [][\A f \in Feats : \A k \in DOMAIN cache'[f] :
            (k \notin DOMAIN cache[f] \/ cache'[f][k] # cache[f][k]) =>
                \E r \in Reqs : Commits(r, f, k)]_vars
    /\ [][\A r \in Reqs :
            (req[r].pc # "done" /\ req'[r].pc = "done"
                /\ ~Commits(r, req[r].feat, req[r].key)) => cache' = cache]_vars
    /\ [][\A f \in Feats : DOMAIN cache[f] \subseteq DOMAIN cache'[f]]_vars
    /\ [][\A f \in Feats : DOMAIN locks[f] \subseteq DOMAIN locks'[f]]_vars
    /\ [][\A f \in Feats : \A k \in DOMAIN locks'[f] \ DOMAIN locks[f] :
            \E r \in Reqs : req[r].pc = "get_lock" /\ req[r].feat = f /\ req[r].key = k]_vars
    /\ [][\A f \in Feats : \A k \in DOMAIN locks[f] :
            (locks[f][k] /\ ~locks'[f][k]) =>
                \E r \in Reqs : /\ Holds(r) /\ req[r].feat = f /\ req[r].key = k
                                /\ req'[r].pc = "done"]_vars

\* /role-members has an entry and locks for two keys, and a /boosters request
\* is answered 202 while another scans: the entry is as it was written
C17_Witness ==
    \E r, q \in Reqs :
        /\ req[r].pc = "done" /\ req[r].resp.status = 202 /\ req[r].feat = Boosters
        /\ req[q].pc = "scan"
        /\ Cardinality(DOMAIN locks[RoleMembers]) = 2
        /\ <<1, 7>> \in DOMAIN cache[RoleMembers]
        /\ cache[RoleMembers][<<1, 7>>].ts < now

FeatOf(r) == IF req[r].feat # None THEN req[r].feat ELSE req'[r].feat

\* C19: a request is answered 202 at the lock only when a request of its own
\* feature is inside the build phase for its key, and is served an entry on
\* arrival only from the cache of its own feature; with no valid entry in its
\* own feature it goes to the lock, and with nobody of its own feature inside
\* for its key it acquires it, whatever the other feature holds for the same
\* guild; and no step of a request changes the cache or the lock table of the
\* other feature.
C19_FeaturesIndependent ==
    /\ [][\A r \in Reqs :
            (req[r].pc = "get_lock" /\ req'[r].resp.status = 202) =>
                \E q \in Reqs \ {r} :
                    Holds(q) /\ req[q].feat = req[r].feat /\ req[q].key = req[r].key]_vars
    /\ [][\A r \in Reqs :
            (req[r].pc = "get_lock"
                /\ ~\E q \in Reqs \ {r} : Holds(q) /\ req[q].feat = req[r].feat) =>
                req'[r].pc = "locked"]_vars
    /\ [][\A r \in Reqs :
            Arrives(r) =>
                LET f == req'[r].feat
                    k == req'[r].key
                IN  IF k \in DOMAIN cache[f] /\ now - cache[f][k].ts < cache_seconds[f]
                    THEN req'[r].resp = [status |-> 200, body |-> cache[f][k].payload]
                    ELSE req'[r].pc = "get_lock"]_vars
    /\ [][\A r \in Reqs :
            req'[r] # req[r] =>
                \A g \in Feats \ {FeatOf(r)} : cache'[g] = cache[g] /\ locks'[g] = locks[g]]_vars

\* both features are scanning guild 1 at the same time
C19_Witness ==
    \E r, q \in Reqs :
        /\ req[r].pc = "scan" /\ req[r].feat = RoleMembers /\ req[r].key[1] = 1
        /\ req[q].pc = "scan" /\ req[q].feat = Boosters /\ req[q].key[1] = 1

\* C20: whatever the number of on_ready events, at most one start_api task is
\* ever created; none exists before the first on_ready; the one task is created
\* in the step of the first on_ready and in no other step; and the API listens,
\* and requests are handled, only after that.
C20_ApiStartedOnce ==
    /\ [](api_tasks <= 1)
    /\ [](readies = 0 => (api_tasks = 0 /\ ~api_started /\ listening = 0))
    /\ [](readies >= 1 => (api_tasks = 1 /\ api_started))
    /\ [][api_tasks' # api_tasks =>
            (readies = 0 /\ readies' = 1 /\ api_tasks' = api_tasks + 1)]_vars
    /\ [](listening <= api_tasks)
    /\ [](\A r \in Reqs : req[r].pc # "idle" => listening = 1)

\* on_ready has fired again after a reconnect while a request was scanning
C20_Witness ==
    /\ readies >= 2
    /\ api_tasks = 1
    /\ listening = 1
    /\ \E r \in Reqs : req[r].pc = "scan" /\ req[r].idx > 0

====
